---------------------------- MODULE Spec2Model ----------------------------
(***************************************************************************)
(* MerkleKV storage layer: the persistent engine (SledEngine), a durable   *)
(* sled tree fronted by an LRU cache behind one mutex.                     *)
(*                                                                         *)
(* State: the durable tree as the running engine sees it, what has been    *)
(* flushed to disk, the LRU cache (most recently used entry first), and    *)
(* one record per calling thread holding the call it is executing and its  *)
(* position in it.  Each critical section of the cache mutex and each      *)
(* call on the sled tree is one atomic step; a call of the trait is the    *)
(* sequence of steps its code performs, so that calls of several threads   *)
(* interleave exactly where the code releases the mutex.                   *)
(*                                                                         *)
(* Values are texts, modelled as sequences of one-character strings, so    *)
(* that str::parse::<i64>, i64::to_string and format!("{}{}") are          *)
(* computed.  An Option is <<>> (None) or <<x>> (Some(x)).                 *)
(***************************************************************************)
EXTENDS Integers, Sequences, FiniteSets, TLC

VARIABLES
    tree,     \* the sled tree "merkle_kv" of the open engine: key -> Option<text>
    disk,     \* what the storage location holds durably: key -> Option<text>
    cache,    \* LruCache<String, String>: sequence of [k, v], head = most recent
    cap,      \* the cache capacity fixed by with_config
    open,     \* TRUE while an engine instance exists
    gen,      \* how many times the engine has been reopened
    th,       \* per thread: the call in progress or last completed
    callers,  \* the threads that issue calls
    pre,      \* single caller: the state at the start of its current call
    last      \* single caller: per key, the last completed mutation of the key

vars == <<tree, disk, cache, cap, open, gen, th, callers, pre, last>>

----------------------------------------------------------------------------
(* Bounds of the model *)

\* largest cache capacity tried
MaxCap == 2
\* largest magnitude a stored number may have when a numeric call starts
MaxNum == 7
\* longest text a string call may start from
MaxLen == 2
\* how many times the engine is disposed and reopened
MaxReopen == 1

\* the keys, in the byte order in which the sled tree iterates them
KeyOrder == <<"k1", "k2", "k3">>
Keys == {KeyOrder[i] : i \in 1..Len(KeyOrder)}
Threads == {1, 2}
NoKey == ""

None == <<>>
Some(x) == <<x>>
IsSome(o) == o # <<>>
Unwrap(o) == o[1]

Ok == <<"Ok">>

\* Err(anyhow!(...)): the error a fault of the sled tree is mapped to
Err == <<"Err", "fault">>

IsErr(r) == Len(r) = 2 /\ r[1] = "Err"

EmptyTree == [k \in Keys |-> None]

----------------------------------------------------------------------------
(* Text <-> i64 conversions *)

DigitChars == <<"0", "1", "2", "3", "4", "5", "6", "7", "8", "9">>

IsDigit(c) == \E i \in 1..10 : DigitChars[i] = c

DigitVal(c) == (CHOOSE i \in 1..10 : DigitChars[i] = c) - 1

RECURSIVE DigitsToNat(_, _)
DigitsToNat(s, acc) ==
    IF s = <<>> THEN acc
    ELSE DigitsToNat(Tail(s), acc * 10 + DigitVal(Head(s)))

\* i64::MAX, the signed word scaled from 64 to 16 bits so that sums and
\* differences of two words stay within the integers of the model checker;
\* i64::MIN is -I64Max - 1
I64Max == 32767

\* n is a value of i64
InI64(n) == n >= -I64Max - 1 /\ n <= I64Max

\* the two's complement word an overflowing + or - leaves where overflow
\* is not checked
WrappingI64(n) == ((n + I64Max + 1) % (2 * (I64Max + 1))) - (I64Max + 1)

\* str::parse::<i64>: an optional sign, then at least one decimal digit and
\* nothing else; a number outside i64 is an error as well.  Err is None.
ParseI64(s) ==
    LET signed == Len(s) > 0 /\ s[1] \in {"+", "-"}
        digits == IF signed THEN Tail(s) ELSE s
        n == (IF signed /\ s[1] = "-" THEN -1 ELSE 1) * DigitsToNat(digits, 0)
    IN  IF digits = <<>> \/ \E i \in 1..Len(digits) : ~IsDigit(digits[i])
        THEN None
        ELSE IF InI64(n) THEN Some(n) ELSE None

RECURSIVE NatToString(_)
NatToString(n) ==
    IF n < 10 THEN <<DigitChars[n + 1]>>
    ELSE NatToString(n \div 10) \o <<DigitChars[(n % 10) + 1]>>

\* i64::to_string
I64ToString(n) == IF n < 0 THEN <<"-">> \o NatToString(-n) ELSE NatToString(n)

\* value.parse::<i64>().unwrap_or(0) on Some(value), 0 on None
CurrentNumber(o) ==
    IF IsSome(o) /\ IsSome(ParseI64(Unwrap(o))) THEN Unwrap(ParseI64(Unwrap(o))) ELSE 0

\* a default amount of 0
AmountOr0(a) == IF IsSome(a) THEN Unwrap(a) ELSE 0

\* amount.unwrap_or(1)
AmountOr1(a) == IF IsSome(a) THEN Unwrap(a) ELSE 1

\* self.get(key).unwrap_or_default()
CurrentText(o) == IF IsSome(o) THEN Unwrap(o) ELSE <<>>

\* a byte that occurs in no UTF-8 text
InvalidByte == "0xFF"

\* String::from_utf8(bytes).is_ok()
Utf8Valid(bytes) == \A i \in 1..Len(bytes) : bytes[i] # InvalidByte

\* String::from_utf8: the text the bytes encode, Err (None) when they encode none
FromUtf8(bytes) == IF Utf8Valid(bytes) THEN Some(bytes) ELSE None

----------------------------------------------------------------------------
(* The LRU cache *)

CacheIndex(c, k) ==
    IF \E i \in 1..Len(c) : c[i].k = k
    THEN CHOOSE i \in 1..Len(c) : c[i].k = k
    ELSE 0

CacheHas(c, k) == CacheIndex(c, k) # 0

CacheKeys(c) == {c[i].k : i \in 1..Len(c)}

\* the cached value of a key the cache holds
CachePeek(c, k) == c[CacheIndex(c, k)].v

RemoveAt(c, i) == SubSeq(c, 1, i - 1) \o SubSeq(c, i + 1, Len(c))

\* a lookup that leaves the order of use as it is (a peek)
LruGetNotPromoted(c, k) == c

\* cache.get(key) on a hit: the entry becomes the most recently used
LruGet(c, k) == <<c[CacheIndex(c, k)]>> \o RemoveAt(c, CacheIndex(c, k))

\* a put that never evicts
LruPutUnbounded(c, k, v, n) ==
    IF CacheHas(c, k) THEN <<[k |-> k, v |-> v]>> \o RemoveAt(c, CacheIndex(c, k))
    ELSE <<[k |-> k, v |-> v]>> \o c

\* cache.put(key, value): update and promote, or insert, evicting the least
\* recently used entry when the cache is full
LruPut(c, k, v, n) ==
    IF CacheHas(c, k) THEN <<[k |-> k, v |-> v]>> \o RemoveAt(c, CacheIndex(c, k))
    ELSE IF Len(c) >= n THEN <<[k |-> k, v |-> v]>> \o SubSeq(c, 1, n - 1)
    ELSE <<[k |-> k, v |-> v]>> \o c

\* a pop that removes nothing
LruPopNothing(c, k) == c

\* cache.pop(key)
LruPop(c, k) == IF CacheHas(c, k) THEN RemoveAt(c, CacheIndex(c, k)) ELSE c

\* a truncate that leaves the cache as it is
LruClearNothing(c) == c

\* cache.clear()
LruClear(c) == <<>>


----------------------------------------------------------------------------
(* Threads and the bookkeeping of calls *)

\* fault names the call on the sled tree that failed during the call of the
\* thread ("get", "utf8", "insert", "remove", "iter", "clear"), "overflow"
\* for an i64 operation of the call that left i64, or "none";
\* holds says whether the thread holds the guard of the cache mutex
IdleRec == [pc |-> "idle", op |-> "none", key |-> NoKey, arg |-> <<>>,
            val |-> <<>>, ret |-> <<>>, fault |-> "none", holds |-> FALSE]

NoMutation == [kind |-> "none", val |-> <<>>, gen |-> 0]

\* the history variables pre and last are kept for a single caller only
Tracked == Cardinality(callers) = 1

Snapshot == [tree |-> tree, cached |-> CacheKeys(cache), last |-> last]

\* thread t enters a call of the trait: op(key, arg), first step pc0
Call(t, op, key, arg, pc0) ==
    /\ open
    /\ t \in callers
    /\ th[t].pc = "idle"
    /\ th' = [th EXCEPT ![t] = [pc |-> pc0, op |-> op, key |-> key, arg |-> arg,
                                val |-> IF op = "set" THEN arg ELSE <<>>,
                                ret |-> <<>>, fault |-> "none", holds |-> FALSE]]
    /\ pre' = IF Tracked THEN Snapshot ELSE pre
    /\ UNCHANGED <<tree, disk, cache, cap, open, gen, callers, last>>

\* the record of thread t when its call returns r
Returned(t, r) == [th[t] EXCEPT !.pc = "idle", !.val = <<>>, !.ret = r]

\* the positions at which a thread operates on the cache
CachePcs == {"get_cache", "get_put", "set_cache", "del_cache", "trunc_cache",
             "stats_cache"}

\* the cache mutex is poisoned once a thread has panicked while it held
\* the guard; the mutex stays poisoned for the life of the engine
Poisoned == \E u \in Threads : th[u].pc = "panicked"

\* self.cache.lock() returns Ok: thread t, about to operate on the cache,
\* obtains the guard when no thread holds it and the mutex is not poisoned
cache_lock(t) ==
    /\ th[t].pc \in CachePcs
    /\ ~Poisoned
    /\ \A u \in Threads : ~th[u].holds
    /\ th' = [th EXCEPT ![t].holds = TRUE]
    /\ UNCHANGED <<tree, disk, cache, cap, open, gen, callers, pre, last>>

\* a guard that outlives the block it was bound in
GuardKept(rec) == rec

\* the guard is dropped where the block of its if let ends (or at the
\* return inside it): the record of a thread as it leaves the block
GuardDropped(rec) == [rec EXCEPT !.holds = FALSE]

\* last, after a completed mutation of kind kind that left key k with text v
Mutated(k, kind, v) ==
    IF Tracked THEN [last EXCEPT ![k] = [kind |-> kind, val |-> v, gen |-> gen]]
    ELSE last

----------------------------------------------------------------------------
(* get_internal, and the read-modify-write operators built on get *)

\* decrement written as a copy of increment, the sign left unchanged
NewValueDecrementAdds(op, arg, got) ==
    CASE op \in {"increment", "decrement"} ->
            <<I64ToString(CurrentNumber(got) + AmountOr1(arg)),
              <<CurrentNumber(got) + AmountOr1(arg)>> >>
      [] op = "append" -> <<CurrentText(got) \o arg, CurrentText(got) \o arg>>
      [] op = "prepend" -> <<arg \o CurrentText(got), arg \o CurrentText(got)>>

\* prepend written as a copy of append, the operands left in place
NewValuePrependAppends(op, arg, got) ==
    CASE op = "increment" ->
            <<I64ToString(CurrentNumber(got) + AmountOr1(arg)),
              <<CurrentNumber(got) + AmountOr1(arg)>> >>
      [] op = "decrement" ->
            <<I64ToString(CurrentNumber(got) - AmountOr1(arg)),
              <<CurrentNumber(got) - AmountOr1(arg)>> >>
      [] op \in {"append", "prepend"} ->
            <<CurrentText(got) \o arg, CurrentText(got) \o arg>>

\* lines 315 and 332: current_value + increment_by, current_value -
\* decrement_by leave i64
Overflows(op, arg, got) ==
    \/ op = "increment" /\ ~InI64(CurrentNumber(got) + AmountOr1(arg))
    \/ op = "decrement" /\ ~InI64(CurrentNumber(got) - AmountOr1(arg))

\* The value increment/decrement/append/prepend compute from what get
\* returned: <<text to store, result to return>>.
NewValue(op, arg, got) ==
    CASE op = "increment" ->
            <<I64ToString(WrappingI64(CurrentNumber(got) + AmountOr1(arg))),
              <<WrappingI64(CurrentNumber(got) + AmountOr1(arg))>> >>
      [] op = "decrement" ->
            <<I64ToString(WrappingI64(CurrentNumber(got) - AmountOr1(arg))),
              <<WrappingI64(CurrentNumber(got) - AmountOr1(arg))>> >>
      [] op = "append" -> <<CurrentText(got) \o arg, CurrentText(got) \o arg>>
      [] op = "prepend" -> <<arg \o CurrentText(got), arg \o CurrentText(got)>>

\* operators that compute and return the new value and never store it
AfterGetNotStored(t, got) ==
    IF th[t].op = "get" THEN Returned(t, got)
    ELSE Returned(t, NewValue(th[t].op, th[t].arg, got)[2])

\* thread t after its get_internal returned got: get returns it, the other
\* operators compute the new value and go on to set.  fault records that
\* the + of increment or the - of decrement left i64
AfterGet(t, got) ==
    IF th[t].op = "get" THEN Returned(t, got)
    ELSE [th[t] EXCEPT !.pc = "set_cache",
                       !.val = NewValue(th[t].op, th[t].arg, got)[1],
                       !.ret = NewValue(th[t].op, th[t].arg, got)[2],
                       !.fault = IF Overflows(th[t].op, th[t].arg, got)
                                 THEN "overflow" ELSE @]

\* a get that answers a failed lookup with an empty text
GetOnErrEmptyText == Some(<<>>)

\* lines 255-258: get logs the Err of get_internal and returns None
GetOnErr == None

\* thread t after its get_internal returned Err because of fault f
AfterGetErr(t, f) == [AfterGet(t, GetOnErr) EXCEPT !.fault = f]

\* lines 137-141: lock the cache, look the key up; a hit promotes the entry
get_internal_cache(t) ==
    /\ th[t].pc = "get_cache"
    /\ IF CacheHas(cache, th[t].key)
       THEN /\ cache' = LruGet(cache, th[t].key)
            /\ th' = [th EXCEPT ![t] =
                          GuardDropped(AfterGet(t, Some(CachePeek(cache, th[t].key))))]
       ELSE /\ cache' = cache
            /\ th' = [th EXCEPT ![t] = GuardDropped([th[t] EXCEPT !.pc = "get_tree"])]
    /\ UNCHANGED <<tree, disk, cap, open, gen, callers, pre, last>>

\* lines 144-151 and 159-161: read the tree and decode the bytes it holds.
\* The bytes set_internal wrote with as_bytes() decode to the text written;
\* bytes that are no UTF-8 text end get_internal with Err.
get_internal_tree(t) ==
    /\ th[t].pc = "get_tree"
    /\ IF IsSome(tree[th[t].key])
       THEN IF IsSome(FromUtf8(Unwrap(tree[th[t].key])))
            THEN th' = [th EXCEPT ![t].pc = "get_put",
                                  ![t].val = Unwrap(FromUtf8(Unwrap(tree[th[t].key])))]
            ELSE th' = [th EXCEPT ![t] = AfterGetErr(t, "utf8")]
       ELSE th' = [th EXCEPT ![t] = AfterGet(t, None)]
    /\ UNCHANGED <<tree, disk, cache, cap, open, gen, callers, pre, last>>

\* lines 144-147: tree.get fails; get_internal returns Err by the ? operator
get_internal_tree_fault(t) ==
    /\ th[t].pc = "get_tree"
    /\ th' = [th EXCEPT ![t] = AfterGetErr(t, "get")]
    /\ UNCHANGED <<tree, disk, cache, cap, open, gen, callers, pre, last>>

\* a miss that returns what the tree held without caching it
get_internal_put_skipped(t) ==
    /\ th[t].pc = "get_put"
    /\ th' = [th EXCEPT ![t] = GuardDropped(AfterGet(t, Some(th[t].val)))]
    /\ UNCHANGED <<tree, disk, cache, cap, open, gen, callers, pre, last>>

\* lines 153-158: lock the cache again and insert what the tree held
get_internal_put(t) ==
    /\ th[t].pc = "get_put"
    /\ cache' = LruPut(cache, th[t].key, th[t].val, cap)
    /\ th' = [th EXCEPT ![t] = GuardDropped(AfterGet(t, Some(th[t].val)))]
    /\ UNCHANGED <<tree, disk, cap, open, gen, callers, pre, last>>

----------------------------------------------------------------------------
(* set_internal *)

\* a set that goes to the tree without writing the cache
set_internal_cache_skipped(t) ==
    /\ th[t].pc = "set_cache"
    /\ th' = [th EXCEPT ![t] = GuardDropped([th[t] EXCEPT !.pc = "set_tree"])]
    /\ UNCHANGED <<tree, disk, cache, cap, open, gen, callers, pre, last>>

\* lines 166-169: the cache is written first
set_internal_cache(t) ==
    /\ th[t].pc = "set_cache"
    /\ cache' = LruPut(cache, th[t].key, th[t].val, cap)
    /\ th' = [th EXCEPT ![t] = GuardDropped([th[t] EXCEPT !.pc = "set_tree"])]
    /\ UNCHANGED <<tree, disk, cap, open, gen, callers, pre, last>>

\* a set that forgets the write-through
TreeInsertSkipped(tr, k, v) == tr

\* the tree after tree.insert(key, value)
TreeInsert(tr, k, v) == [tr EXCEPT ![k] = Some(v)]

\* lines 171-176: then the tree; set returns Ok(()), the operators their result
set_internal_tree(t) ==
    /\ th[t].pc = "set_tree"
    /\ tree' = TreeInsert(tree, th[t].key, th[t].val)
    /\ th' = [th EXCEPT ![t] = Returned(t, IF th[t].op = "set" THEN Ok ELSE th[t].ret)]
    /\ last' = Mutated(th[t].key, IF th[t].op = "set" THEN "set" ELSE "rmw", th[t].val)
    /\ UNCHANGED <<disk, cache, cap, open, gen, callers, pre>>

\* lines 172-174: tree.insert fails; set_internal returns Err, which set and
\* the operators (self.set(..)?) return to their caller.  The tree is as it
\* was; the cache was written before.
set_internal_tree_fault(t) ==
    /\ th[t].pc = "set_tree"
    /\ th' = [th EXCEPT ![t] = [Returned(t, Err) EXCEPT !.fault = "insert"]]
    /\ last' = Mutated(th[t].key, IF th[t].op = "set" THEN "set_err" ELSE "rmw_err",
                       th[t].val)
    /\ UNCHANGED <<tree, disk, cache, cap, open, gen, callers, pre>>

----------------------------------------------------------------------------
(* delete_internal *)

\* lines 181-184
delete_internal_cache(t) ==
    /\ th[t].pc = "del_cache"
    /\ cache' = LruPop(cache, th[t].key)
    /\ th' = [th EXCEPT ![t] = GuardDropped([th[t] EXCEPT !.pc = "del_tree"])]
    /\ UNCHANGED <<tree, disk, cap, open, gen, callers, pre, last>>

\* a delete that reports success whatever the tree held
TreeRemovedAlways(tr, k) == TRUE

\* what tree.remove(key) returns, as result.is_some()
TreeRemoved(tr, k) == IsSome(tr[k])

\* lines 186-192
delete_internal_tree(t) ==
    /\ th[t].pc = "del_tree"
    /\ tree' = [tree EXCEPT ![th[t].key] = None]
    /\ th' = [th EXCEPT ![t] = Returned(t, <<TreeRemoved(tree, th[t].key)>>)]
    /\ last' = Mutated(th[t].key, "delete", <<>>)
    /\ UNCHANGED <<disk, cache, cap, open, gen, callers, pre>>

\* lines 269-272: delete logs the Err of delete_internal and returns false
DeleteOnErr == <<FALSE>>

\* lines 187-190: tree.remove fails; the cache entry is already gone
delete_internal_tree_fault(t) ==
    /\ th[t].pc = "del_tree"
    /\ th' = [th EXCEPT ![t] = [Returned(t, DeleteOnErr) EXCEPT !.fault = "remove"]]
    /\ UNCHANGED <<tree, disk, cache, cap, open, gen, callers, pre, last>>

----------------------------------------------------------------------------
(* truncate *)

\* a truncate whose guard is never dropped
truncate_cache_guard_leaked(t) ==
    /\ th[t].pc = "trunc_cache"
    /\ cache' = LruClear(cache)
    /\ th' = [th EXCEPT ![t].pc = "trunc_tree"]
    /\ UNCHANGED <<tree, disk, cap, open, gen, callers, pre, last>>

\* lines 359-362
truncate_cache(t) ==
    /\ th[t].pc = "trunc_cache"
    /\ cache' = LruClear(cache)
    /\ th' = [th EXCEPT ![t] = GuardDropped([th[t] EXCEPT !.pc = "trunc_tree"])]
    /\ UNCHANGED <<tree, disk, cap, open, gen, callers, pre, last>>

\* the tree after tree.clear()
TreeClear(tr) == [k \in Keys |-> None]

\* lines 364-367
truncate_tree(t) ==
    /\ th[t].pc = "trunc_tree"
    /\ tree' = TreeClear(tree)
    /\ th' = [th EXCEPT ![t] = Returned(t, Ok)]
    /\ last' = IF Tracked
               THEN [k \in Keys |-> [kind |-> "truncate", val |-> <<>>, gen |-> gen]]
               ELSE last
    /\ UNCHANGED <<disk, cache, cap, open, gen, callers, pre>>

\* line 365: tree.clear fails; truncate returns Err.  sled clears a tree key
\* by key, so that any part of the keys may be gone when it fails.
truncate_tree_fault(t) ==
    /\ th[t].pc = "trunc_tree"
    /\ \E gone \in SUBSET {k \in Keys : IsSome(tree[k])} :
          tree' = [k \in Keys |-> IF k \in gone THEN None ELSE tree[k]]
    /\ th' = [th EXCEPT ![t] = [Returned(t, Err) EXCEPT !.fault = "clear"]]
    /\ last' = IF Tracked
               THEN [k \in Keys |-> [kind |-> "truncate_err", val |-> <<>>, gen |-> gen]]
               ELSE last
    /\ UNCHANGED <<disk, cache, cap, open, gen, callers, pre>>

----------------------------------------------------------------------------
(* keys, len, is_empty, count_keys, sync *)

\* tree.iter(): the keys that hold a value, in key order
TreeIter(tr) == SelectSeq(KeyOrder, LAMBDA k : IsSome(tr[k]))

\* an enumeration that lists the cache instead of the tree
keys_internal_of_cache(t) ==
    /\ th[t].pc = "keys"
    /\ th' = [th EXCEPT ![t] = Returned(t, [i \in 1..Len(cache) |-> cache[i].k])]
    /\ UNCHANGED <<tree, disk, cache, cap, open, gen, callers, pre, last>>

\* keys_internal: every key the iteration yields is pushed, in order
keys_internal(t) ==
    /\ th[t].pc = "keys"
    /\ th' = [th EXCEPT ![t] = Returned(t, TreeIter(tree))]
    /\ UNCHANGED <<tree, disk, cache, cap, open, gen, callers, pre, last>>

\* lines 279-282: keys logs the Err of keys_internal and returns Vec::new()
KeysOnErr == <<>>

\* lines 200-201: the iteration yields an Err; the keys pushed so far are
\* dropped with the Err
keys_internal_fault(t) ==
    /\ th[t].pc = "keys"
    /\ th' = [th EXCEPT ![t] = [Returned(t, KeysOnErr) EXCEPT !.fault = "iter"]]
    /\ UNCHANGED <<tree, disk, cache, cap, open, gen, callers, pre, last>>

\* tree.len(): sled counts the entries of an iteration
TreeLen(tr) == Len(TreeIter(tr))

\* len_internal, also behind count_keys (self.len() as u64)
len_internal(t) ==
    /\ th[t].pc = "len"
    /\ th' = [th EXCEPT ![t] = Returned(t, <<TreeLen(tree)>>)]
    /\ UNCHANGED <<tree, disk, cache, cap, open, gen, callers, pre, last>>

\* tree.is_empty(): the iteration yields nothing
TreeIsEmpty(tr) == TreeIter(tr) = <<>>

is_empty_internal(t) ==
    /\ th[t].pc = "is_empty"
    /\ th' = [th EXCEPT ![t] = Returned(t, <<TreeIsEmpty(tree)>>)]
    /\ UNCHANGED <<tree, disk, cache, cap, open, gen, callers, pre, last>>

\* lines 235-240 of stats: db_size_bytes when size_on_disk succeeds (the
\* size itself is not modelled), then tree_size
stats_tree(t) ==
    /\ th[t].pc = "stats_tree"
    /\ \E sized \in BOOLEAN :
          th' = [th EXCEPT ![t].pc = "stats_cache",
                           ![t].val = (IF sized THEN << <<"db_size_bytes", <<"size">> >> >>
                                       ELSE <<>>)
                                      \o << <<"tree_size", NatToString(TreeLen(tree))>> >>]
    /\ UNCHANGED <<tree, disk, cache, cap, open, gen, callers, pre, last>>

\* lines 243-247 of stats: lock the cache, add cache_size, return the map
stats_cache(t) ==
    /\ th[t].pc = "stats_cache"
    /\ th' = [th EXCEPT ![t] =
                  GuardDropped(Returned(t, th[t].val
                      \o << <<"cache_size", NatToString(Len(cache))>> >>))]
    /\ UNCHANGED <<tree, disk, cache, cap, open, gen, callers, pre, last>>

\* db.flush(): everything written to the tree is on disk afterwards
Flushed(tr, d) == tr

\* flush, behind sync
flush(t) ==
    /\ th[t].pc = "flush"
    /\ disk' = Flushed(tree, disk)
    /\ th' = [th EXCEPT ![t] = Returned(t, Ok)]
    /\ UNCHANGED <<tree, cache, cap, open, gen, callers, pre, last>>

----------------------------------------------------------------------------
(* Disposal and reopening *)

AllIdle == \A t \in Threads : th[t].pc = "idle"

\* a drop that does not flush
DropNotFlushed(tr, d) == d

\* lines 382-384: drop flushes; a flush fault could only be logged
DropFlushed(tr, d) == Flushed(tr, d)

\* impl Drop: the engine is disposed when no call borrows it; drop flushes.
\* What the process held in memory (cache, unflushed writes) is gone.
drop ==
    /\ open
    /\ AllIdle
    /\ gen < MaxReopen
    /\ disk' = DropFlushed(tree, disk)
    /\ open' = FALSE
    /\ tree' = EmptyTree
    /\ cache' = <<>>
    /\ th' = [t \in Threads |-> IdleRec]
    /\ UNCHANGED <<cap, gen, callers, pre, last>>

\* with_config at the same storage location: the tree is what the disk
\* holds, the cache is new and empty
with_config ==
    /\ ~open
    /\ tree' = disk
    /\ cache' = <<>>
    /\ open' = TRUE
    /\ gen' = gen + 1
    /\ UNCHANGED <<disk, cap, th, callers, pre, last>>


----------------------------------------------------------------------------
(* The calls of KVEngineStoreTrait *)

get(t, k) == Call(t, "get", k, <<>>, "get_cache")

set(t, k, v) == Call(t, "set", k, v, "set_cache")

delete(t, k) == Call(t, "delete", k, <<>>, "del_cache")

keys(t) == Call(t, "keys", NoKey, <<>>, "keys")

len(t) == Call(t, "len", NoKey, <<>>, "len")

is_empty(t) == Call(t, "is_empty", NoKey, <<>>, "is_empty")

count_keys(t) == Call(t, "count_keys", NoKey, <<>>, "len")

truncate(t) == Call(t, "truncate", NoKey, <<>>, "trunc_cache")

sync(t) == Call(t, "sync", NoKey, <<>>, "flush")

stats(t) == Call(t, "stats", NoKey, <<>>, "stats_tree")

\* what get_internal finds for key k: the cached text, else what the tree holds
Visible(k) == IF CacheHas(cache, k) THEN Some(CachePeek(cache, k)) ELSE tree[k]

\* the numeric calls start from a stored number of bounded magnitude
NumberInBounds(k, a) ==
    /\ CurrentNumber(Visible(k)) <= MaxNum
    /\ CurrentNumber(Visible(k)) >= -MaxNum

increment(t, k, a) ==
    /\ NumberInBounds(k, a)
    /\ Call(t, "increment", k, a, "get_cache")

decrement(t, k, a) ==
    /\ NumberInBounds(k, a)
    /\ Call(t, "decrement", k, a, "get_cache")

\* the string calls start from a stored text of bounded length
TextInBounds(k) == Len(CurrentText(Visible(k))) <= MaxLen

append(t, k, s) ==
    /\ TextInBounds(k)
    /\ Call(t, "append", k, s, "get_cache")

prepend(t, k, s) ==
    /\ TextInBounds(k)
    /\ Call(t, "prepend", k, s, "get_cache")

----------------------------------------------------------------------------
(* The steps a thread takes, each a named action of the specifications *)

GetCacheStep == \E t \in callers : get_internal_cache(t)
GetTreeStep == \E t \in callers : get_internal_tree(t)
GetPutStep == \E t \in callers : get_internal_put(t)
SetCacheStep == \E t \in callers : set_internal_cache(t)
SetTreeStep == \E t \in callers : set_internal_tree(t)
DeleteCacheStep == \E t \in callers : delete_internal_cache(t)
DeleteTreeStep == \E t \in callers : delete_internal_tree(t)
TruncateCacheStep == \E t \in callers : truncate_cache(t)
TruncateTreeStep == \E t \in callers : truncate_tree(t)
KeysStep == \E t \in callers : keys_internal(t)
LenStep == \E t \in callers : len_internal(t)
IsEmptyStep == \E t \in callers : is_empty_internal(t)
FlushStep == \E t \in callers : flush(t)
StatsTreeStep == \E t \in callers : stats_tree(t)
StatsCacheStep == \E t \in callers : stats_cache(t)
GetTreeFault == \E t \in callers : get_internal_tree_fault(t)
SetTreeFault == \E t \in callers : set_internal_tree_fault(t)
DeleteTreeFault == \E t \in callers : delete_internal_tree_fault(t)
TruncateTreeFault == \E t \in callers : truncate_tree_fault(t)
KeysFault == \E t \in callers : keys_internal_fault(t)

\* an engine opened for the callers cs at a location that holds tr
InitFrom(cs, tr) ==
    /\ tree = tr
    /\ disk = tr
    /\ cache = <<>>
    /\ cap \in 1..MaxCap
    /\ open = TRUE
    /\ gen = 0
    /\ th = [t \in Threads |-> IdleRec]
    /\ callers = cs
    /\ last = [k \in Keys |-> NoMutation]
    /\ pre = [tree |-> tr, cached |-> {}, last |-> [k \in Keys |-> NoMutation]]

\* an engine opened at a fresh location
InitWith(cs) == InitFrom(cs, EmptyTree)

----------------------------------------------------------------------------
(* Spec: one caller; point operations, enumeration, truncate *)

KVValues == {<<"a">>, <<"b">>}

CallGet == \E t \in callers, k \in Keys : get(t, k)
CallSet == \E t \in callers, k \in Keys, v \in KVValues : set(t, k, v)
CallDelete == \E t \in callers, k \in Keys : delete(t, k)
CallKeys == \E t \in callers : keys(t)
CallLen == \E t \in callers : len(t)
CallIsEmpty == \E t \in callers : is_empty(t)
CallCountKeys == \E t \in callers : count_keys(t)
CallTruncate == \E t \in callers : truncate(t)

Init == InitWith({1})

Next ==
    \/ CallGet
    \/ CallSet
    \/ CallDelete
    \/ CallKeys
    \/ CallLen
    \/ CallIsEmpty
    \/ CallCountKeys
    \/ CallTruncate
    \/ GetCacheStep
    \/ GetTreeStep
    \/ GetPutStep
    \/ SetCacheStep
    \/ SetTreeStep
    \/ DeleteCacheStep
    \/ DeleteTreeStep
    \/ TruncateCacheStep
    \/ TruncateTreeStep
    \/ KeysStep
    \/ LenStep
    \/ IsEmptyStep

Spec == Init /\ [][Next]_vars


----------------------------------------------------------------------------
(* Claims checked under Spec *)

\* thread t has returned from a call of op
Done(t, op) == th[t].pc = "idle" /\ th[t].op = op

\* the keys that hold a value in the tree
LiveKeys == {k \in Keys : IsSome(tree[k])}

\* the keys whose last completed mutation stored a value
WrittenKeys == {k \in Keys : last[k].kind \in {"set", "rmw"}}

Range(s) == {s[i] : i \in 1..Len(s)}

\* C1: when set(k, v) has returned Ok the tree holds v for k and the cache
\* holds no other value for k; and a get(k) that returns while the last
\* completed mutation of k is a set(k, v) returns Some(v), whether k is
\* still cached or has been evicted since.  A second set overwrites.
C1_SetThenGet ==
    \A t \in callers :
        /\ Done(t, "set") =>
              /\ th[t].ret = Ok
              /\ tree[th[t].key] = Some(th[t].arg)
              /\ CacheHas(cache, th[t].key) => CachePeek(cache, th[t].key) = th[t].arg
        /\ (Done(t, "get") /\ last[th[t].key].kind = "set") =>
              th[t].ret = Some(last[th[t].key].val)

\* a get of a key that was set and then evicted returns the value set
C1_Witness ==
    \E t \in callers :
        /\ Done(t, "get")
        /\ last[th[t].key].kind = "set"
        /\ pre.last[th[t].key].kind = "set"
        /\ th[t].key \notin pre.cached
        /\ th[t].ret = Some(last[th[t].key].val)

\* C2: delete(k) returns true exactly when the tree held k when the call
\* started, whatever the cache held; it returns false when the last
\* completed mutation of k was already a delete; afterwards neither tree
\* nor cache holds k, and a get(k) returns None until k is written again.
C2_Delete ==
    \A t \in callers :
        /\ Done(t, "delete") =>
              /\ th[t].ret = <<IsSome(pre.tree[th[t].key])>>
              /\ pre.last[th[t].key].kind = "delete" => th[t].ret = <<FALSE>>
              /\ tree[th[t].key] = None
              /\ ~CacheHas(cache, th[t].key)
        /\ (Done(t, "get") /\ last[th[t].key].kind = "delete") => th[t].ret = None

\* delete returns true for a key the tree holds and the cache has evicted
C2_Witness ==
    \E t \in callers :
        /\ Done(t, "delete")
        /\ th[t].ret = <<TRUE>>
        /\ th[t].key \notin pre.cached
        /\ pre.last[th[t].key].kind = "set"

\* C8: when truncate() has returned Ok, the tree iterates no key, its
\* length is 0, it is empty, the cache holds no entry and no key has a
\* value; and while truncate is the last completed mutation, get returns
\* None for every key, len and count_keys 0, is_empty true and keys nothing.
C8_Truncate ==
    \A t \in callers :
        /\ Done(t, "truncate") =>
              /\ th[t].ret = Ok
              /\ TreeLen(tree) = 0
              /\ TreeIsEmpty(tree)
              /\ TreeIter(tree) = <<>>
              /\ cache = <<>>
              /\ \A k \in Keys : tree[k] = None
        /\ (Done(t, "get") /\ last[th[t].key].kind = "truncate") => th[t].ret = None
        /\ (\A k \in Keys : last[k].kind = "truncate") =>
              /\ Done(t, "len") => th[t].ret = <<0>>
              /\ Done(t, "count_keys") => th[t].ret = <<0>>
              /\ Done(t, "is_empty") => th[t].ret = <<TRUE>>
              /\ Done(t, "keys") => th[t].ret = <<>>

\* truncate has returned on an engine that held records and cache entries
C8_Witness ==
    \E t \in callers :
        /\ Done(t, "truncate")
        /\ pre.cached # {}
        /\ \E k \in Keys : IsSome(pre.tree[k]) /\ k \notin pre.cached

\* C9: keys() returns exactly the keys that hold a value in the tree, each
\* once, and these are the keys whose last completed mutation stored a
\* value, whatever the cache holds; len() and count_keys() return their
\* number and is_empty() returns whether there is none.
C9_Enumeration ==
    \A t \in callers :
        /\ Done(t, "keys") =>
              /\ Range(th[t].ret) = LiveKeys
              /\ Len(th[t].ret) = Cardinality(LiveKeys)
              /\ Range(th[t].ret) = WrittenKeys
        /\ Done(t, "len") => th[t].ret = <<Cardinality(WrittenKeys)>>
        /\ Done(t, "count_keys") => th[t].ret = <<Cardinality(WrittenKeys)>>
        /\ Done(t, "is_empty") => th[t].ret = <<Cardinality(WrittenKeys) = 0>>
        /\ th[t].pc = "idle" => LiveKeys = WrittenKeys

\* keys() lists a key an operator wrote and the cache has evicted, and does
\* not list a deleted key
C9_Witness ==
    \E t \in callers :
        /\ Done(t, "keys")
        /\ \E k \in Range(th[t].ret) : ~CacheHas(cache, k) /\ last[k].kind = "rmw"
        /\ \E k \in Keys \ Range(th[t].ret) : last[k].kind = "delete"

\* the keys of a cache, most recently used first
KeySeq(c) == [i \in 1..Len(c) |-> c[i].k]

\* thread t executes the cache operation of its position
CacheOpBy(t) ==
    /\ th[t].pc \in {"get_cache", "get_put", "set_cache", "del_cache", "trunc_cache"}
    /\ th'[t].pc # th[t].pc

\* the cache operation of t uses its key: a lookup that hits, the insertion
\* of what the tree held, or the cache write of a set
UseBy(t) ==
    /\ CacheOpBy(t)
    /\ \/ th[t].pc = "get_cache" /\ CacheHas(cache, th[t].key)
       \/ th[t].pc \in {"get_put", "set_cache"}

----------------------------------------------------------------------------
(* SpecRMW: one caller; the numeric and string operators on one key, with  *)
(* set, get and delete of that key, a second key to evict the first, and   *)
(* truncate and the enumeration calls                                      *)

RmwKey == "k1"
OtherKey == "k2"

\* texts set directly: a number, a signed number with a leading zero, and a
\* text that is no number
RmwValues == {<<"6">>, <<"+", "0", "3">>, <<"x">>}
IncAmounts == {None, Some(5), Some(-2)}
DecAmounts == {None, Some(2), Some(-5)}
Suffixes == {<<"b">>}
Prefixes == {<<"a">>}

CallIncrement == \E t \in callers, a \in IncAmounts : increment(t, RmwKey, a)
CallDecrement == \E t \in callers, a \in DecAmounts : decrement(t, RmwKey, a)
CallAppend == \E t \in callers, s \in Suffixes : append(t, RmwKey, s)
CallPrepend == \E t \in callers, s \in Prefixes : prepend(t, RmwKey, s)
CallGetRmw == \E t \in callers : get(t, RmwKey)
CallSetRmw == \E t \in callers, v \in RmwValues : set(t, RmwKey, v)
CallDeleteRmw == \E t \in callers : delete(t, RmwKey)
CallGetOther == \E t \in callers : get(t, OtherKey)
CallSetOther == \E t \in callers : set(t, OtherKey, <<"a">>)
CallDeleteOther == \E t \in callers : delete(t, OtherKey)

NextRMW ==
    \/ CallIncrement
    \/ CallDecrement
    \/ CallAppend
    \/ CallPrepend
    \/ CallGetRmw
    \/ CallSetRmw
    \/ CallDeleteRmw
    \/ CallGetOther
    \/ CallSetOther
    \/ CallDeleteOther
    \/ CallKeys
    \/ CallLen
    \/ CallIsEmpty
    \/ CallCountKeys
    \/ CallTruncate
    \/ GetCacheStep
    \/ GetTreeStep
    \/ GetPutStep
    \/ SetCacheStep
    \/ SetTreeStep
    \/ DeleteCacheStep
    \/ DeleteTreeStep
    \/ TruncateCacheStep
    \/ TruncateTreeStep
    \/ KeysStep
    \/ LenStep
    \/ IsEmptyStep

SpecRMW == Init /\ [][NextRMW]_vars

\* the text stored for key k when the current call started
PreText(t) == pre.tree[th[t].key]

\* C5: increment(k, amount) returns current + amount, where current is the
\* number stored for k when the call started, 0 when k was absent or its
\* text is no i64, and amount is 1 when None; the decimal text of the
\* result is then the value of k, in the tree and wherever it is cached.
\* An absent key gives 1 for None and 5 for Some(5); "5" gives 6 for None;
\* the unparsable "x" is overwritten by the amount.
C5_Increment ==
    \A t \in callers :
        Done(t, "increment") =>
            /\ th[t].ret = <<CurrentNumber(PreText(t)) + AmountOr1(th[t].arg)>>
            /\ tree[th[t].key] = Some(I64ToString(th[t].ret[1]))
            /\ ParseI64(Unwrap(tree[th[t].key])) = Some(th[t].ret[1])
            /\ CacheHas(cache, th[t].key) =>
                   CachePeek(cache, th[t].key) = Unwrap(tree[th[t].key])
            /\ (PreText(t) = None /\ th[t].arg = None) =>
                   th[t].ret = <<1>> /\ tree[th[t].key] = Some(<<"1">>)
            /\ (PreText(t) = None /\ th[t].arg = Some(5)) => th[t].ret = <<5>>
            /\ (PreText(t) = Some(<<"5">>) /\ th[t].arg = None) =>
                   th[t].ret = <<6>> /\ tree[th[t].key] = Some(<<"6">>)
            /\ (PreText(t) = Some(<<"x">>) /\ th[t].arg = Some(5)) =>
                   th[t].ret = <<5>> /\ tree[th[t].key] = Some(<<"5">>)
            /\ (PreText(t) = Some(<<"+", "0", "3">>) /\ th[t].arg = Some(-2)) =>
                   th[t].ret = <<1>> /\ tree[th[t].key] = Some(<<"1">>)

\* increment(k, None) returns 6 after an increment that stored "5"
C5_Witness ==
    \E t \in callers :
        /\ Done(t, "increment")
        /\ th[t].arg = None
        /\ pre.last[th[t].key] = [kind |-> "rmw", val |-> <<"5">>, gen |-> 0]
        /\ th[t].ret = <<6>>

\* C6: decrement(k, amount) returns and stores current - amount (amount 1
\* when None, current 0 when absent or unparsable): the result and the
\* stored text are those increment(k, Some(-amount)) computes from the same
\* current value.  6 gives 4 for Some(2), and 4 gives 3 for None.
C6_Decrement ==
    \A t \in callers :
        Done(t, "decrement") =>
            /\ th[t].ret = <<CurrentNumber(PreText(t)) - AmountOr1(th[t].arg)>>
            /\ tree[th[t].key] = Some(I64ToString(th[t].ret[1]))
            /\ <<Unwrap(tree[th[t].key]), th[t].ret>> =
                   NewValue("increment", Some(-AmountOr1(th[t].arg)), PreText(t))
            /\ (PreText(t) = Some(<<"6">>) /\ th[t].arg = Some(2)) =>
                   th[t].ret = <<4>> /\ tree[th[t].key] = Some(<<"4">>)
            /\ (PreText(t) = Some(<<"4">>) /\ th[t].arg = None) =>
                   th[t].ret = <<3>> /\ tree[th[t].key] = Some(<<"3">>)
            /\ (PreText(t) = None /\ th[t].arg = None) =>
                   th[t].ret = <<-1>> /\ tree[th[t].key] = Some(<<"-", "1">>)

\* decrement(k, None) returns 3 after a decrement that stored "4"
C6_Witness ==
    \E t \in callers :
        /\ Done(t, "decrement")
        /\ th[t].arg = None
        /\ pre.last[th[t].key] = [kind |-> "rmw", val |-> <<"4">>, gen |-> 0]
        /\ th[t].ret = <<3>>

\* C7: append(k, s) returns current ++ s and prepend(k, p) returns
\* p ++ current, current being the text stored for k when the call started
\* or the empty text; the returned text is then the value of k, and a get(k)
\* that follows returns exactly it.  "x" appended with "b" is "xb", and
\* "xb" prepended with "a" is "axb".
C7_AppendPrepend ==
    \A t \in callers :
        /\ Done(t, "append") =>
              /\ th[t].ret = CurrentText(PreText(t)) \o th[t].arg
              /\ tree[th[t].key] = Some(th[t].ret)
              /\ last[th[t].key].val = th[t].ret
              /\ PreText(t) = Some(<<"x">>) => th[t].ret = <<"x", "b">>
              /\ PreText(t) = None => th[t].ret = <<"b">>
        /\ Done(t, "prepend") =>
              /\ th[t].ret = th[t].arg \o CurrentText(PreText(t))
              /\ tree[th[t].key] = Some(th[t].ret)
              /\ last[th[t].key].val = th[t].ret
              /\ PreText(t) = Some(<<"x", "b">>) => th[t].ret = <<"a", "x", "b">>
              /\ PreText(t) = None => th[t].ret = <<"a">>
        /\ (Done(t, "get") /\ last[th[t].key].kind = "rmw") =>
              th[t].ret = Some(last[th[t].key].val)

\* a get returns "axb" after "x" was appended with "b" and prepended with "a"
C7_Witness ==
    \E t \in callers :
        /\ Done(t, "get")
        /\ last[th[t].key] = [kind |-> "rmw", val |-> <<"a", "x", "b">>, gen |-> 0]
        /\ th[t].ret = Some(<<"a", "x", "b">>)


----------------------------------------------------------------------------
(* SpecDur: one caller; writes, deletes and reads of two keys, sync, and    *)
(* disposal of the engine followed by a new engine at the same location     *)

DurKeys == {"k1", "k2"}

CallGetDur == \E t \in callers, k \in DurKeys : get(t, k)
CallSetDur == \E t \in callers, k \in DurKeys, v \in KVValues : set(t, k, v)
CallDeleteDur == \E t \in callers, k \in DurKeys : delete(t, k)
CallSync == \E t \in callers : sync(t)

NextDur ==
    \/ CallGetDur
    \/ CallSetDur
    \/ CallDeleteDur
    \/ CallSync
    \/ GetCacheStep
    \/ GetTreeStep
    \/ GetPutStep
    \/ SetCacheStep
    \/ SetTreeStep
    \/ DeleteCacheStep
    \/ DeleteTreeStep
    \/ FlushStep
    \/ drop
    \/ with_config

SpecDur == Init /\ [][NextDur]_vars

\* what a key holds according to its last completed mutation
Expected(k) == IF last[k].kind \in {"set", "rmw"} THEN Some(last[k].val) ELSE None

----------------------------------------------------------------------------
(* SpecConc: two callers sharing the engine; get, set, delete and truncate  *)
(* of two keys, interleaved at every release of the cache lock              *)

ConcKeys == {"k1", "k2"}

CallGetConc == \E t \in callers, k \in ConcKeys : get(t, k)
CallSetConc == \E t \in callers, k \in ConcKeys, v \in KVValues : set(t, k, v)
CallDeleteConc == \E t \in callers, k \in ConcKeys : delete(t, k)

InitConc == InitWith(Threads)

NextConc ==
    \/ CallGetConc
    \/ CallSetConc
    \/ CallDeleteConc
    \/ CallTruncate
    \/ GetCacheStep
    \/ GetTreeStep
    \/ GetPutStep
    \/ SetCacheStep
    \/ SetTreeStep
    \/ DeleteCacheStep
    \/ DeleteTreeStep
    \/ TruncateCacheStep
    \/ TruncateTreeStep

SpecConc == InitConc /\ [][NextConc]_vars

\* C3: in every reachable state, also between the cache step and the tree
\* step of a call, every key the cache holds has a value in the tree.
C3_CacheWithinTree == \A k \in CacheKeys(cache) : IsSome(tree[k])

\* C3 read for the states in which no call is in progress: there too the
\* cache can hold a key the tree has lost (a get that read the tree before a
\* delete and filled the cache after it).
C3_CacheWithinTreeAtRest == AllIdle => C3_CacheWithinTree

\* C17: in every state in which every call has returned and none met a
\* fault, every entry (k, v) of the cache has the tree holding exactly v
\* for k.
C17_CacheAgreesAtRest ==
    (AllIdle /\ \A t \in Threads : th[t].fault = "none") =>
        \A i \in 1..Len(cache) : tree[cache[i].k] = Some(cache[i].v)

\* two sets of one key have both returned Ok, and the cache holds the value
\* of one and the tree the value of the other
C17_TwoSetsCrossed ==
    /\ AllIdle
    /\ \A t \in Threads : Done(t, "set") /\ th[t].ret = Ok /\ th[t].key = "k1"
    /\ CacheHas(cache, "k1")
    /\ IsSome(tree["k1"])
    /\ tree["k1"] # Some(CachePeek(cache, "k1"))

----------------------------------------------------------------------------
(* SpecRace: two callers, each making one read-modify-write call on the     *)
(* same key of an engine whose location holds nothing or the number 6       *)

RaceAmounts == {None, Some(5)}
RaceSuffixes == {<<"b">>, <<"c">>}

InitRace ==
    \E o \in {None, Some(<<"6">>)} :
        InitFrom(Threads, [EmptyTree EXCEPT ![RmwKey] = o])

FirstCall(t) == th[t].op = "none"

RaceIncrement ==
    \E t \in callers, a \in RaceAmounts : FirstCall(t) /\ increment(t, RmwKey, a)

RaceAppend ==
    \E t \in callers, s \in RaceSuffixes : FirstCall(t) /\ append(t, RmwKey, s)

NextRace ==
    \/ RaceIncrement
    \/ RaceAppend
    \/ GetCacheStep
    \/ GetTreeStep
    \/ GetPutStep
    \/ SetCacheStep
    \/ SetTreeStep

SpecRace == InitRace /\ [][NextRace]_vars

\* both callers have returned from a call of op
BothDone(op) == \A t \in Threads : Done(t, op)

\* the number and the text the location held when the engine was opened
InitialNumber == CurrentNumber(pre.tree[RmwKey])
InitialText == CurrentText(pre.tree[RmwKey])

FinalNumber == CurrentNumber(tree[RmwKey])
FinalText == CurrentText(tree[RmwKey])

\* C4: when two concurrent increments of one key have both returned, each
\* returned the initial number plus its own amount or plus both amounts,
\* and the number finally stored is the full sum or the sum less one of the
\* amounts (that update is lost); when two concurrent appends have both
\* returned, the text finally stored is the initial text followed by both
\* suffixes in either order, or by one of them only.
C4_LostUpdate ==
    /\ BothDone("increment") =>
          LET a1 == AmountOr1(th[1].arg)
              a2 == AmountOr1(th[2].arg)
          IN  /\ th[1].ret[1] \in {InitialNumber + a1, InitialNumber + a1 + a2}
              /\ th[2].ret[1] \in {InitialNumber + a2, InitialNumber + a1 + a2}
              /\ FinalNumber \in {InitialNumber + a1 + a2, InitialNumber + a1,
                                  InitialNumber + a2}
              /\ FinalNumber \in {th[1].ret[1], th[2].ret[1]}
    /\ BothDone("append") =>
          LET s1 == th[1].arg
              s2 == th[2].arg
          IN  /\ FinalText \in {InitialText \o s1 \o s2, InitialText \o s2 \o s1,
                                InitialText \o s1, InitialText \o s2}
              /\ FinalText \in {th[1].ret, th[2].ret}

\* two increments of 6 by 5 and by 1 have both returned and the key holds
\* less than 12
C4_Witness ==
    /\ BothDone("increment")
    /\ InitialNumber = 6
    /\ th[1].arg = Some(5)
    /\ th[2].arg = None
    /\ FinalNumber < InitialNumber + 5 + 1

\* two appends of "b" and of "c" have both returned and the key holds only
\* one of the suffixes
C4_WitnessAppend ==
    /\ BothDone("append")
    /\ th[1].arg = <<"b">>
    /\ th[2].arg = <<"c">>
    /\ Len(FinalText) = Len(InitialText) + 1


----------------------------------------------------------------------------
(* SpecFault: one caller; get, set, delete, keys and the four operators on  *)
(* an engine whose tree calls may fail, opened at a location that holds     *)
(* nothing, a number, or bytes that are no UTF-8 text                       *)

\* the texts set directly: a number and a text that is no number
FaultValues == {<<"6">>, <<"x">>}

\* what the location may hold for the key when the engine is opened
FaultStored == {None, Some(<<"6">>), Some(<<InvalidByte>>)}

InitFault == \E o \in FaultStored : InitFrom({1}, [EmptyTree EXCEPT ![RmwKey] = o])

\* the operators are called on a key that is absent or holds a text that
\* was set directly or found at the location
FreshText(k) == Visible(k) \in FaultStored \cup {Some(v) : v \in FaultValues}

FaultIncrement == \E t \in callers : FreshText(RmwKey) /\ increment(t, RmwKey, None)
FaultDecrement == \E t \in callers : FreshText(RmwKey) /\ decrement(t, RmwKey, None)
FaultAppend == \E t \in callers : FreshText(RmwKey) /\ append(t, RmwKey, <<"b">>)
FaultPrepend == \E t \in callers : FreshText(RmwKey) /\ prepend(t, RmwKey, <<"a">>)
FaultSet == \E t \in callers, v \in FaultValues : set(t, RmwKey, v)

NextFault ==
    \/ FaultIncrement
    \/ FaultDecrement
    \/ FaultAppend
    \/ FaultPrepend
    \/ FaultSet
    \/ CallGetRmw
    \/ CallDeleteRmw
    \/ CallGetOther
    \/ CallSetOther
    \/ CallKeys
    \/ GetCacheStep
    \/ GetTreeStep
    \/ GetPutStep
    \/ SetCacheStep
    \/ SetTreeStep
    \/ DeleteCacheStep
    \/ DeleteTreeStep
    \/ KeysStep
    \/ GetTreeFault
    \/ SetTreeFault
    \/ DeleteTreeFault
    \/ KeysFault

SpecFault == InitFault /\ [][NextFault]_vars

\* thread t has returned from a call of op during which a tree call failed
Failed(t, op) == Done(t, op) /\ th[t].fault # "none"

\* C12: a get during which the tree read failed, or which found bytes that
\* are no text, has returned None, and the tree holds what it held and the
\* cache the keys it held when the call started, the key of the get not
\* among them; the step in which the fault occurs changes neither cache nor
\* tree, and the lookup that missed before it changed nothing either.  A
\* delete during which the tree removal failed has returned false, and a
\* keys() whose iteration failed has returned the empty sequence.
C12_FaultsDowngraded ==
    /\ [](\A t \in callers :
            /\ Failed(t, "get") =>
                  /\ th[t].ret = None
                  /\ tree = pre.tree
                  /\ CacheKeys(cache) = pre.cached
                  /\ ~CacheHas(cache, th[t].key)
            /\ Failed(t, "delete") => th[t].ret = <<FALSE>> /\ tree = pre.tree
            /\ Failed(t, "keys") => th[t].ret = <<>>)
    /\ [][\A t \in callers :
            /\ (th[t].op = "get" /\ th[t].fault = "none" /\ th'[t].fault # "none") =>
                  /\ th'[t].pc = "idle"
                  /\ cache' = cache
                  /\ tree' = tree
            /\ (th[t].op = "get" /\ th[t].pc = "get_cache" /\ th'[t].pc = "get_tree") =>
                  cache' = cache
       ]_vars

\* a get of a key whose bytes are no text has returned None, with another
\* key in the cache
C12_Witness ==
    \E t \in callers :
        /\ Failed(t, "get")
        /\ th[t].fault = "utf8"
        /\ IsSome(tree[th[t].key])
        /\ cache # <<>>

\* a get of a key the tree holds has returned None because the read failed
C12_WitnessRead ==
    \E t \in callers :
        /\ Failed(t, "get")
        /\ th[t].fault = "get"
        /\ IsSome(tree[th[t].key])
        /\ th[t].ret = None

\* C13: an increment, decrement, append or prepend during which a call on
\* the tree failed, the read of the current value or the write of the new
\* one, has returned an error.
C13_OperatorFaultsReturned ==
    \A t \in callers :
        \A op \in {"increment", "decrement", "append", "prepend"} :
            Failed(t, op) => IsErr(th[t].ret)

\* C13 for the write alone: an operator whose tree.insert failed has
\* returned an error (the ? after self.set)
C13_WriteFaultReturned ==
    \A t \in callers :
        \A op \in {"increment", "decrement", "append", "prepend"} :
            (Done(t, op) /\ th[t].fault = "insert") => IsErr(th[t].ret)

\* an increment of a key that holds 6 has met a read fault, returned 1 and
\* stored "1"
C13_ReadFaultSwallowed ==
    \E t \in callers :
        /\ Done(t, "increment")
        /\ th[t].fault = "get"
        /\ pre.tree[th[t].key] = Some(<<"6">>)
        /\ th[t].ret = <<1>>
        /\ tree[th[t].key] = Some(<<"1">>)


----------------------------------------------------------------------------
(* SpecWriteFault: one caller; set and get of two keys, and truncate, on an *)
(* engine whose tree.insert and tree.clear may fail                         *)

NextWriteFault ==
    \/ CallGetDur
    \/ CallSetDur
    \/ CallTruncate
    \/ GetCacheStep
    \/ GetTreeStep
    \/ GetPutStep
    \/ SetCacheStep
    \/ SetTreeStep
    \/ TruncateCacheStep
    \/ TruncateTreeStep
    \/ SetTreeFault
    \/ TruncateTreeFault

SpecWriteFault == Init /\ [][NextWriteFault]_vars

\* C14: when a set(k, v) is about to call the tree, the cache already holds
\* (k, v) and the tree is as it was when the call started; when the insert
\* has failed, set has returned Err, the tree is still as it was, and the
\* cache holds (k, v) as its most recent entry; and a get(k) that looks k up
\* while a failed set(k, v) is the last thing that happened to k and the
\* cache still holds (k, v) returns Some(v) without touching the tree.
C14_SetFault ==
    /\ [](\A t \in callers :
            /\ (th[t].op = "set" /\ th[t].pc = "set_tree") =>
                  /\ CacheHas(cache, th[t].key)
                  /\ CachePeek(cache, th[t].key) = th[t].arg
                  /\ tree = pre.tree
            /\ Failed(t, "set") =>
                  /\ IsErr(th[t].ret)
                  /\ tree = pre.tree
                  /\ cache # <<>>
                  /\ cache[1] = [k |-> th[t].key, v |-> th[t].arg]
                  /\ last[th[t].key] = [kind |-> "set_err", val |-> th[t].arg,
                                        gen |-> gen])
    /\ [][\A t \in callers :
            (/\ th[t].op = "get"
             /\ th[t].pc = "get_cache"
             /\ th'[t] # th[t]
             /\ last[th[t].key].kind = "set_err"
             /\ Visible(th[t].key) = Some(last[th[t].key].val)
             /\ CacheHas(cache, th[t].key)) =>
                /\ th'[t].pc = "idle"
                /\ th'[t].ret = Some(last[th[t].key].val)
                /\ tree' = tree
       ]_vars

\* a get has returned the value of a failed set while the tree holds
\* another value for the key
C14_Witness ==
    \E t \in callers :
        /\ Done(t, "get")
        /\ pre.last[th[t].key].kind = "set_err"
        /\ th[t].ret = Some(pre.last[th[t].key].val)
        /\ IsSome(tree[th[t].key])
        /\ tree[th[t].key] # th[t].ret


----------------------------------------------------------------------------
(* The engine factory (factory.rs)                                          *)

\* usize::MAX.  The machine word is modelled with 31 bits, the widest word
\* whose values the model checker can compute with; the products of the
\* factory overflow it the way they overflow 64 bits, at inputs 2^33 times
\* smaller.
UsizeMax == 2147483647

\* the factor 1024 of lines 24 and 25
Kibi == 1024

\* cache_size.max(100)
MinCacheSize == 100

\* StorageConfig::default(): cache_size_mb and max_db_size_mb
DefaultCacheSizeMb == 100
DefaultMaxDbSizeMb == 1024

\* a * 1024 does not fit the word
MulKibiOverflows(a) == a > UsizeMax \div Kibi

\* a * 1024 modulo 2^31, as a build without overflow checks computes it
WrappingMulKibi(a) == (a % ((UsizeMax \div Kibi) + 1)) * Kibi

\* line 24 in a build without overflow checks:
\* config.cache_size_mb * 1024 * 1024 / 1024
CacheSizeWrapping(mb) == WrappingMulKibi(WrappingMulKibi(mb)) \div Kibi

\* line 24 in a build with overflow checks: one of the two products panics
CacheSizeOverflows(mb) ==
    MulKibiOverflows(mb) \/ MulKibiOverflows(WrappingMulKibi(mb))

\* line 25: config.max_db_size_mb * 1024 * 1024
MaxDbSizeOverflows(mb) ==
    MulKibiOverflows(mb) \/ MulKibiOverflows(WrappingMulKibi(mb))

Max(a, b) == IF a >= b THEN a ELSE b

\* NonZeroUsize::new
NonZeroUsize(n) == IF n = 0 THEN None ELSE Some(n)

Panic == <<"Panic", "attempt to multiply with overflow">>

\* the Err of a constructor whose I/O failed
ErrOpen == <<"Err", "Failed to open">>

\* line 121
ErrCacheSizeZero == <<"Err", "Cache size must be greater than 0">>

OkEngine(kind) == <<"Ok", kind>>

\* StorageConfig with the fields the factory reads
StorageConfig(engine, cache_mb, db_mb) ==
    [engine |-> engine, cache_size_mb |-> cache_mb, max_db_size_mb |-> db_mb]

\* lines 11-37: what create_storage_engine returns for config, and the
\* capacity of the persistent engine it built (0: none built).  checks says
\* whether the build panics on arithmetic overflow (debug) or wraps
\* (release); opens says whether the constructor's I/O succeeds.
Build(config, checks, opens) ==
    IF config.engine # "sled"
    THEN [ret |-> IF opens THEN OkEngine(config.engine) ELSE ErrOpen, cap |-> 0]
    ELSE IF checks /\ (CacheSizeOverflows(config.cache_size_mb)
                         \/ MaxDbSizeOverflows(config.max_db_size_mb))
    THEN [ret |-> Panic, cap |-> 0]
    ELSE IF ~opens
    THEN [ret |-> ErrOpen, cap |-> 0]
    ELSE IF NonZeroUsize(Max(CacheSizeWrapping(config.cache_size_mb), MinCacheSize)) = None
    THEN [ret |-> ErrCacheSizeZero, cap |-> 0]
    ELSE [ret |-> OkEngine("sled"),
          cap |-> Max(CacheSizeWrapping(config.cache_size_mb), MinCacheSize)]

\* the caller t, which holds no engine yet, receives what Build returns; a
\* persistent engine that was built is open on what the location holds
Construct(t, op, arg, out) ==
    /\ ~open
    /\ t \in callers
    /\ th[t] = IdleRec
    /\ th' = [th EXCEPT ![t] = [IdleRec EXCEPT !.op = op, !.arg = arg, !.ret = out.ret]]
    /\ open' = (out.ret = OkEngine("sled"))
    /\ cap' = out.cap
    /\ tree' = IF out.ret = OkEngine("sled") THEN disk ELSE tree
    /\ UNCHANGED <<disk, cache, gen, callers, pre, last>>

create_storage_engine(t, config) ==
    \E checks \in BOOLEAN, opens \in BOOLEAN :
        Construct(t, "create_storage_engine", config, Build(config, checks, opens))

\* str::to_lowercase on the characters the names are written with; the
\* Kelvin sign (U+212A) is an upper-case letter whose lower case is k
UpperChars == <<"S", "L", "E", "D", "M", "O", "R", "Y", "K", "V", "W", "C", "I",
                "U+212A">>
LowerChars == <<"s", "l", "e", "d", "m", "o", "r", "y", "k", "v", "w", "c", "i",
                "k">>

ToLowerChar(c) ==
    IF \E i \in 1..Len(UpperChars) : UpperChars[i] = c
    THEN LowerChars[CHOOSE i \in 1..Len(UpperChars) : UpperChars[i] = c]
    ELSE c

ToLowercase(name) == [i \in 1..Len(name) |-> ToLowerChar(name[i])]

\* an error text that quotes the lower-cased name
UnknownEngineLowered(name) ==
    <<"Err", <<"Unknown engine type: ">> \o ToLowercase(name)
                 \o <<". Available engines: memory, rwlock, sled">> >>

\* lines 60-63: the error text quotes engine_type as it was passed
UnknownEngine(name) ==
    <<"Err", <<"Unknown engine type: ">> \o name
                 \o <<". Available engines: memory, rwlock, sled">> >>

\* lines 43-59: the engine kind the lower-cased name selects, None for the
\* names of the default arm
EngineOf(name) ==
    CASE ToLowercase(name) \in {<<"m", "e", "m", "o", "r", "y">>, <<"k", "v">>} ->
            Some("memory")
      [] ToLowercase(name) = <<"r", "w", "l", "o", "c", "k">> -> Some("rwlock")
      [] ToLowercase(name) = <<"s", "l", "e", "d">> -> Some("sled")
      [] OTHER -> None

\* lines 39-68
create_storage_engine_simple(t, name) ==
    IF IsSome(EngineOf(name))
    THEN \E checks \in BOOLEAN, opens \in BOOLEAN :
            Construct(t, "create_storage_engine_simple", name,
                      Build(StorageConfig(Unwrap(EngineOf(name)), DefaultCacheSizeMb,
                                          DefaultMaxDbSizeMb), checks, opens))
    ELSE Construct(t, "create_storage_engine_simple", name,
                   [ret |-> UnknownEngine(name), cap |-> 0])

----------------------------------------------------------------------------
(* SpecFactory: one caller builds an engine through the factory, from a     *)
(* configuration record or from a name, and uses the persistent engine it   *)
(* received                                                                 *)

EngineKinds == {"memory", "rwlock", "sled"}

\* cache budgets: none, one, the default, the largest whose products fit the
\* word, the first whose second product does not, the first whose first
\* product does not, and the largest word
CacheSizesMb == {0, 1, DefaultCacheSizeMb, UsizeMax \div (Kibi * Kibi),
                 (UsizeMax \div (Kibi * Kibi)) + 1, (UsizeMax \div Kibi) + 1, UsizeMax}

MaxDbSizesMb == {DefaultMaxDbSizeMb, (UsizeMax \div (Kibi * Kibi)) + 1}

EngineNames ==
    {<<"s", "l", "e", "d">>, <<"S", "l", "e", "d">>, <<"S", "L", "E", "D">>,
     <<"m", "e", "m", "o", "r", "y">>, <<"M", "e", "m", "o", "r", "y">>,
     <<"k", "v">>, <<"K", "V">>, <<"U+212A", "v">>,
     <<"r", "w", "l", "o", "c", "k">>, <<"R", "w", "L", "o", "c", "k">>,
     <<"r", "e", "d", "i", "s">>, <<"R", "e", "d", "i", "s">>,
     <<"s", "l", "e", "d", " ">>, <<"l", "o", "c", "k", "e", "d">>, <<>>}

\* no engine yet, at a location that holds nothing or one record
InitFactory ==
    /\ tree = EmptyTree
    /\ disk \in {EmptyTree, [EmptyTree EXCEPT !["k1"] = Some(<<"a">>)]}
    /\ cache = <<>>
    /\ cap = 0
    /\ open = FALSE
    /\ gen = 0
    /\ th = [t \in Threads |-> IdleRec]
    /\ callers = {1}
    /\ last = [k \in Keys |-> NoMutation]
    /\ pre = [tree |-> EmptyTree, cached |-> {}, last |-> [k \in Keys |-> NoMutation]]

CreateStorageEngine ==
    \E t \in callers, e \in EngineKinds, c \in CacheSizesMb, d \in MaxDbSizesMb :
        create_storage_engine(t, StorageConfig(e, c, d))

CreateStorageEngineSimple ==
    \E t \in callers, name \in EngineNames : create_storage_engine_simple(t, name)

NextFactory ==
    \/ CreateStorageEngine
    \/ CreateStorageEngineSimple
    \/ CallGetDur
    \/ CallSetDur
    \/ GetCacheStep
    \/ GetTreeStep
    \/ GetPutStep
    \/ SetCacheStep
    \/ SetTreeStep

SpecFactory == InitFactory /\ [][NextFactory]_vars

\* C15: whenever create_storage_engine has returned for a configuration of
\* the persistent kind, it has not stopped on an arithmetic overflow and has
\* not failed for a cache capacity of zero, and when it built the engine
\* the capacity is max(cache_size_mb * 1024, 100), which is 1024 for 1 and
\* 100 for 0.
C15_CacheCapacity ==
    \A t \in callers :
        (Done(t, "create_storage_engine") /\ th[t].arg.engine = "sled") =>
            /\ th[t].ret # Panic
            /\ th[t].ret # ErrCacheSizeZero
            /\ th[t].ret = OkEngine("sled") =>
                  /\ ~MulKibiOverflows(th[t].arg.cache_size_mb)
                  /\ cap = Max(th[t].arg.cache_size_mb * Kibi, MinCacheSize)
                  /\ th[t].arg.cache_size_mb = 1 => cap = 1024
                  /\ th[t].arg.cache_size_mb = 0 => cap = 100

\* C15 for the budgets whose product with 1024 * 1024 fits the word, the
\* database size being the default: no overflow, no zero capacity, and the
\* capacity is max(cache_size_mb * 1024, 100)
C15_InRange ==
    \A t \in callers :
        (/\ Done(t, "create_storage_engine")
         /\ th[t].arg.engine = "sled"
         /\ th[t].arg.cache_size_mb <= UsizeMax \div (Kibi * Kibi)
         /\ th[t].arg.max_db_size_mb = DefaultMaxDbSizeMb) =>
            /\ th[t].ret # Panic
            /\ th[t].ret # ErrCacheSizeZero
            /\ th[t].ret = OkEngine("sled") =>
                  cap = Max(th[t].arg.cache_size_mb * Kibi, MinCacheSize)

\* the factory has built an engine of capacity 100 for a budget of
\* 2048 megabytes, the first whose product with 1024 * 1024 leaves the word
C15_Wrapped ==
    \E t \in callers :
        /\ Done(t, "create_storage_engine")
        /\ th[t].arg.engine = "sled"
        /\ th[t].arg.cache_size_mb = (UsizeMax \div (Kibi * Kibi)) + 1
        /\ th[t].ret = OkEngine("sled")
        /\ cap = MinCacheSize

\* C16: when create_storage_engine_simple(name, path) has returned, then for
\* a name that lower-cases to "memory" or "kv" it selected the volatile
\* engine, for "rwlock" the locked engine and for "sled" the persistent
\* engine (the result is that engine or the Err of its constructor), the
\* persistent engine being open on what the path holds, with an empty cache
\* of the default capacity; for every other name no engine exists and the
\* result is the error whose text is "Unknown engine type: ", the name as
\* it was passed, and ". Available engines: memory, rwlock, sled".
C16_SimpleFactory ==
    \A t \in callers :
        Done(t, "create_storage_engine_simple") =>
            LET name == th[t].arg
                low == ToLowercase(name)
            IN  /\ low \in {<<"m", "e", "m", "o", "r", "y">>, <<"k", "v">>} =>
                      th[t].ret \in {OkEngine("memory"), ErrOpen} /\ ~open
                /\ low = <<"r", "w", "l", "o", "c", "k">> =>
                      th[t].ret \in {OkEngine("rwlock"), ErrOpen} /\ ~open
                /\ low = <<"s", "l", "e", "d">> =>
                      /\ th[t].ret \in {OkEngine("sled"), ErrOpen}
                      /\ open <=> th[t].ret = OkEngine("sled")
                      /\ open =>
                            /\ cap = Max(DefaultCacheSizeMb * Kibi, MinCacheSize)
                            /\ tree = disk
                            /\ cache = <<>>
                /\ low \notin {<<"m", "e", "m", "o", "r", "y">>, <<"k", "v">>,
                                <<"r", "w", "l", "o", "c", "k">>, <<"s", "l", "e", "d">>} =>
                      /\ th[t].ret = <<"Err", <<"Unknown engine type: ">> \o name
                                      \o <<". Available engines: memory, rwlock, sled">> >>
                      /\ ~open
                      /\ cap = 0
                      /\ tree = EmptyTree

\* the name "Redis" has been refused with an error that quotes it with its
\* capital letter, and no engine exists
C16_Witness ==
    \E t \in callers :
        /\ Done(t, "create_storage_engine_simple")
        /\ th[t].arg = <<"R", "e", "d", "i", "s">>
        /\ th[t].ret[2][2] = "R"
        /\ ~open

\* the name "SLED" has given a persistent engine open on the record the
\* location holds
C16_WitnessSled ==
    \E t \in callers :
        /\ Done(t, "create_storage_engine_simple")
        /\ th[t].arg = <<"S", "L", "E", "D">>
        /\ open
        /\ IsSome(tree["k1"])


----------------------------------------------------------------------------
(* SpecLock: two callers; get, set and delete of two keys, truncate and     *)
(* stats, with the acquisition of the cache mutex as a step of its own: a   *)
(* thread performs its cache operation only while it holds the guard       *)

CacheLock == \E t \in callers : cache_lock(t)

NextLock ==
    \/ CallGetConc
    \/ CallSetConc
    \/ CallDeleteConc
    \/ CallTruncate
    \/ \E t \in callers : stats(t)
    \/ CacheLock
    \/ \E t \in callers : th[t].holds /\ get_internal_cache(t)
    \/ \E t \in callers : th[t].holds /\ get_internal_put(t)
    \/ \E t \in callers : th[t].holds /\ set_internal_cache(t)
    \/ \E t \in callers : th[t].holds /\ delete_internal_cache(t)
    \/ \E t \in callers : th[t].holds /\ truncate_cache(t)
    \/ \E t \in callers : th[t].holds /\ stats_cache(t)
    \/ GetTreeStep
    \/ SetTreeStep
    \/ DeleteTreeStep
    \/ TruncateTreeStep
    \/ StatsTreeStep

SpecLock == InitConc /\ [][NextLock]_vars

\* the positions at which a thread calls the tree
TreePcs == {"get_tree", "set_tree", "del_tree", "trunc_tree", "stats_tree"}

\* C18: a thread that holds the cache lock is at a cache operation, never
\* at a call of the tree and never outside a call, and at most one thread
\* holds it; the step a holder takes is that one cache operation, it
\* leaves the tree alone and ends with the lock released; every call of
\* the tree is made by a thread that does not hold the lock; and a thread
\* obtains the lock only when no thread, itself included, holds it.
C18_LockScope ==
    /\ [](\A t \in Threads : th[t].holds => th[t].pc \in CachePcs)
    /\ [](Cardinality({t \in Threads : th[t].holds}) <= 1)
    /\ [][\A t \in Threads :
            /\ (th[t].holds /\ th'[t] # th[t]) =>
                  /\ ~th'[t].holds
                  /\ tree' = tree
                  /\ disk' = disk
            /\ (th[t].pc \in TreePcs /\ th'[t] # th[t]) => ~th[t].holds
            /\ (~th[t].holds /\ th'[t].holds) =>
                  /\ \A u \in Threads : ~th[u].holds
                  /\ th[t].pc \in CachePcs
                  /\ th'[t].pc = th[t].pc
       ]_vars

\* one thread holds the cache lock while the other is at a call of the tree
C18_Witness ==
    \E t \in Threads, u \in Threads :
        /\ t # u
        /\ th[t].holds
        /\ th[u].pc \in TreePcs

----------------------------------------------------------------------------
(* SpecStale: two callers and no writer of values; the location holds "a"   *)
(* under k1; the deleter's first call is delete(k1) and each later call of  *)
(* it is get(k1), so every get of the deleter starts after its delete has   *)
(* returned; the reader calls get at any time.  Thread 1 is the reader,    *)
(* thread 2 the deleter                                                     *)


InitStale ==
    \E o \in {None, Some(<<"b">>)} :
        InitFrom(Threads, [EmptyTree EXCEPT ![RmwKey] = Some(<<"a">>), ![OtherKey] = o])

StaleDelete == FirstCall(2) /\ delete(2, RmwKey)
StaleGetAfter == ~FirstCall(2) /\ get(2, RmwKey)
StaleGetReader == \E k \in ConcKeys : get(1, k)

NextStale ==
    \/ StaleDelete
    \/ StaleGetAfter
    \/ StaleGetReader
    \/ GetCacheStep
    \/ GetTreeStep
    \/ GetPutStep
    \/ DeleteCacheStep
    \/ DeleteTreeStep

SpecStale == InitStale /\ [][NextStale]_vars

\* C19: once delete(k1) has returned, every get(k1) that starts afterwards
\* returns None when no set or read-modify-write is ever called, even when
\* another thread's get(k1) was running during the delete.
C19_NoStaleRead == Done(2, "get") => th[2].ret = None

\* the deleter's get has returned the deleted value from the cache: the tree
\* has no value under k1, the reader is at rest and nothing is in progress
C19_StaleRead ==
    /\ AllIdle
    /\ Done(2, "get")
    /\ th[2].ret = Some(<<"a">>)
    /\ tree[RmwKey] = None
    /\ CacheHas(cache, RmwKey)

----------------------------------------------------------------------------
(* The engine against a plain map, under SpecRMW: one caller, no fault,     *)
(* every capacity from 1 to MaxCap                                          *)

\* the reference map has no cache: a call reads and writes the map itself.
\* What the call op(k, arg) returns on the map m
RefResult(op, m, k, arg) ==
    CASE op = "get" -> m[k]
      [] op = "set" -> Ok
      [] op = "delete" -> <<m[k] # None>>
      [] op = "keys" -> SelectSeq(KeyOrder, LAMBDA key : m[key] # None)
      [] op \in {"len", "count_keys"} ->
            <<Cardinality({key \in Keys : m[key] # None})>>
      [] op = "is_empty" -> <<\A key \in Keys : m[key] = None>>
      [] op = "truncate" -> Ok
      [] op = "increment" -> <<CurrentNumber(m[k]) + AmountOr1(arg)>>
      [] op = "decrement" -> <<CurrentNumber(m[k]) - AmountOr1(arg)>>
      [] op = "append" -> CurrentText(m[k]) \o arg
      [] op = "prepend" -> arg \o CurrentText(m[k])

\* the map m after the call op(k, arg)
RefAfter(op, m, k, arg) ==
    CASE op = "set" -> [m EXCEPT ![k] = Some(arg)]
      [] op = "delete" -> [m EXCEPT ![k] = None]
      [] op = "truncate" -> [key \in Keys |-> None]
      [] op \in {"increment", "decrement"} ->
            [m EXCEPT ![k] = Some(I64ToString(RefResult(op, m, k, arg)[1]))]
      [] op \in {"append", "prepend"} ->
            [m EXCEPT ![k] = Some(RefResult(op, m, k, arg))]
      [] OTHER -> m

\* C20: with one caller and no fault, for every capacity from 1 to MaxCap,
\* every call that has returned gave the result the same call gives on a
\* plain map holding what the tree held when the call started, and left the
\* tree holding what the map holds after the call; the engine starts empty
\* like the map, so call by call the results are those of the map and
\* neither the cache nor an eviction shows in any of them.
C20_MapEquivalence ==
    \A t \in callers :
        (th[t].pc = "idle" /\ th[t].op # "none") =>
            /\ th[t].ret = RefResult(th[t].op, pre.tree, th[t].key, th[t].arg)
            /\ tree = RefAfter(th[t].op, pre.tree, th[t].key, th[t].arg)

\* a get has returned the value of a key that had been written, cached and
\* then evicted by the other key: the cache is full and held only the
\* other key when the get started
C20_Witness ==
    \E t \in callers :
        /\ Done(t, "get")
        /\ th[t].key = RmwKey
        /\ pre.last[RmwKey].kind \in {"set", "rmw"}
        /\ pre.cached = {OtherKey}
        /\ cap = 1
        /\ th[t].ret = Some(pre.last[RmwKey].val)

\* len has returned 2 while the cache holds one entry
C20_WitnessLen ==
    \E t \in callers :
        /\ Done(t, "len")
        /\ th[t].ret = <<2>>
        /\ Len(cache) = 1

----------------------------------------------------------------------------
(* The read-through of get and what get leaves alone, under Spec *)

\* C21: a get(k) that has returned after missing the cache gave the text
\* the tree held for k and left (k, that text) as the most recent cache
\* entry when the tree held one, and gave None and left the cached keys as
\* they were when the tree held none; the tree is as it was when the get
\* started.  Step by step: no step of a get changes the tree or the disk;
\* a lookup that finds k cached returns the cached text at once, without
\* a step on the tree; a lookup that misses and a tree read that finds
\* nothing leave the cache exactly as it was.
C21_ReadThrough ==
    /\ [](\A t \in callers :
            Done(t, "get") =>
                /\ tree = pre.tree
                /\ (th[t].key \notin pre.cached /\ pre.tree[th[t].key] # None) =>
                      /\ th[t].ret = pre.tree[th[t].key]
                      /\ Len(cache) >= 1
                      /\ cache[1] = [k |-> th[t].key, v |-> Unwrap(pre.tree[th[t].key])]
                /\ (th[t].key \notin pre.cached /\ pre.tree[th[t].key] = None) =>
                      /\ th[t].ret = None
                      /\ CacheKeys(cache) = pre.cached)
    /\ [][\A t \in callers :
            (th[t].op = "get" /\ th[t].pc # "idle" /\ th'[t] # th[t]) =>
                /\ tree' = tree
                /\ disk' = disk
                /\ (th[t].pc = "get_cache" /\ CacheHas(cache, th[t].key)) =>
                      /\ th'[t].pc = "idle"
                      /\ th'[t].ret = Some(CachePeek(cache, th[t].key))
                /\ (th[t].pc = "get_cache" /\ ~CacheHas(cache, th[t].key)) =>
                      cache' = cache
                /\ (th[t].pc = "get_tree" /\ tree[th[t].key] = None) =>
                      /\ cache' = cache
                      /\ th'[t].pc = "idle"
                      /\ th'[t].ret = None
       ]_vars

\* a get has returned the text of a key that was in the tree and not in the
\* cache, the cache holding another key, and the key is now cached first
C21_Witness ==
    \E t \in callers :
        /\ Done(t, "get")
        /\ th[t].key \notin pre.cached
        /\ pre.cached # {}
        /\ pre.tree[th[t].key] # None
        /\ th[t].ret = pre.tree[th[t].key]
        /\ cache[1].k = th[t].key

\* a get of a key in neither the cache nor the tree has returned None with
\* the cache holding what it held
C21_WitnessAbsent ==
    \E t \in callers :
        /\ Done(t, "get")
        /\ th[t].key \notin pre.cached
        /\ pre.tree[th[t].key] = None
        /\ th[t].ret = None
        /\ cache # <<>>
        /\ ~CacheHas(cache, th[t].key)

----------------------------------------------------------------------------
(* SpecPoison: the callers use the engine one after the other.  A thread    *)
(* can panic inside cache.put while it holds the guard, which poisons the   *)
(* mutex and ends the thread; the other thread then goes on calling get,    *)
(* set, delete, truncate and stats                                          *)

\* cache.put unwinds (it allocates the entry): the entry was written or was
\* not, the guard is dropped by the unwinding and marks the mutex poisoned,
\* and the tree step of the call is never reached
cache_put_panic(t) ==
    /\ th[t].holds
    /\ th[t].pc \in {"set_cache", "get_put"}
    /\ cache' \in {cache, LruPut(cache, th[t].key, th[t].val, cap)}
    /\ th' = [th EXCEPT ![t] = [th[t] EXCEPT !.pc = "panicked", !.holds = FALSE]]
    /\ callers' = Threads \ {t}
    /\ UNCHANGED <<tree, disk, cap, open, gen, pre, last>>

\* a failed lock() that is unwrapped, taking the caller down
PoisonEscalated(t) == [th[t] EXCEPT !.pc = "panicked"]

\* if let Ok(..) = self.cache.lock() does not match: the block is skipped
\* and the thread is where the block would have left it on a miss.  stats
\* returns the entries it has, get_internal the text it read from the tree
PoisonSkipped(t) ==
    CASE th[t].pc = "get_cache" -> [th[t] EXCEPT !.pc = "get_tree"]
      [] th[t].pc = "get_put" -> AfterGet(t, Some(th[t].val))
      [] th[t].pc = "set_cache" -> [th[t] EXCEPT !.pc = "set_tree"]
      [] th[t].pc = "del_cache" -> [th[t] EXCEPT !.pc = "del_tree"]
      [] th[t].pc = "trunc_cache" -> [th[t] EXCEPT !.pc = "trunc_tree"]
      [] th[t].pc = "stats_cache" -> Returned(t, th[t].val)

\* self.cache.lock() returns Err(PoisonError): the guard inside the error
\* is dropped at once and the cache is not touched
cache_lock_poisoned(t) ==
    /\ th[t].pc \in CachePcs
    /\ Poisoned
    /\ \A u \in Threads : ~th[u].holds
    /\ th' = [th EXCEPT ![t] = PoisonSkipped(t)]
    /\ UNCHANGED <<tree, disk, cache, cap, open, gen, callers, pre, last>>

NextPoison ==
    \/ CallGetConc
    \/ CallSetConc
    \/ CallDeleteConc
    \/ CallTruncate
    \/ \E t \in callers : stats(t)
    \/ CacheLock
    \/ \E t \in callers : cache_put_panic(t)
    \/ \E t \in callers : cache_lock_poisoned(t)
    \/ \E t \in callers : th[t].holds /\ get_internal_cache(t)
    \/ \E t \in callers : th[t].holds /\ get_internal_put(t)
    \/ \E t \in callers : th[t].holds /\ set_internal_cache(t)
    \/ \E t \in callers : th[t].holds /\ delete_internal_cache(t)
    \/ \E t \in callers : th[t].holds /\ truncate_cache(t)
    \/ \E t \in callers : th[t].holds /\ stats_cache(t)
    \/ GetTreeStep
    \/ SetTreeStep
    \/ DeleteTreeStep
    \/ TruncateTreeStep
    \/ StatsTreeStep

SpecPoison == Init /\ [][NextPoison]_vars

\* the names of the entries of a stats result
StatNames(r) == {r[i][1] : i \in 1..Len(r)}

\* C22: once the cache mutex is poisoned, no step changes the cache, no
\* caller panics and no call ends with an error; every call that has
\* returned did its tree step: get(k) returned what the tree held for k,
\* whatever the cache holds for k, and left the tree alone; set(k, v)
\* returned Ok with v in the tree; delete(k) returned whether the tree held
\* k and left the tree without k; truncate returned Ok with the tree empty;
\* stats returned the tree's entry count and no cache entry count.
C22_PoisonedLock ==
    /\ [](Poisoned =>
            \A t \in callers :
                /\ th[t].fault = "none"
                /\ ~th[t].holds
                /\ Done(t, "get") =>
                      th[t].ret = pre.tree[th[t].key] /\ tree = pre.tree
                /\ Done(t, "set") =>
                      /\ th[t].ret = Ok
                      /\ tree = [pre.tree EXCEPT ![th[t].key] = Some(th[t].arg)]
                /\ Done(t, "delete") =>
                      /\ th[t].ret = <<pre.tree[th[t].key] # None>>
                      /\ tree = [pre.tree EXCEPT ![th[t].key] = None]
                /\ Done(t, "truncate") =>
                      th[t].ret = Ok /\ tree = EmptyTree
                /\ Done(t, "stats") =>
                      /\ "cache_size" \notin StatNames(th[t].ret)
                      /\ "tree_size" \in StatNames(th[t].ret)
                      /\ tree = pre.tree)
    /\ [][Poisoned =>
            /\ cache' = cache
            /\ \A t \in callers : th'[t].pc # "panicked"
       ]_vars

\* with the mutex poisoned, a get has returned the tree's text for a key
\* for which the cache holds another text
C22_Witness ==
    \E t \in callers :
        /\ Poisoned
        /\ Done(t, "get")
        /\ CacheHas(cache, th[t].key)
        /\ th[t].ret # Some(CachePeek(cache, th[t].key))
        /\ th[t].ret = tree[th[t].key]

\* with the mutex poisoned, stats has returned without a cache entry count
\* while the cache holds an entry
C22_WitnessStats ==
    \E t \in callers :
        /\ Poisoned
        /\ Done(t, "stats")
        /\ cache # <<>>
        /\ "cache_size" \notin StatNames(th[t].ret)

----------------------------------------------------------------------------
(* The size of the cache, under SpecLock: two callers and stats *)

\* the number a stats result reports under name
StatNumber(r, name) ==
    Unwrap(ParseI64(r[CHOOSE i \in 1..Len(r) : r[i][1] = name][2]))

\* C23: in every state the cache holds at most cap entries, cap being the
\* positive capacity the engine was constructed with, and no step changes
\* cap; a stats call that has returned reports a cache entry count that is
\* at most cap.
C23_CacheBounded ==
    /\ [](/\ cap >= 1
          /\ Len(cache) <= cap
          /\ \A t \in callers :
                Done(t, "stats") =>
                    /\ "cache_size" \in StatNames(th[t].ret)
                    /\ StatNumber(th[t].ret, "cache_size") <= cap)
    /\ [][cap' = cap]_vars

\* stats has returned a cache entry count equal to the capacity while the
\* tree holds more keys than the cache can
C23_Witness ==
    \E t \in callers :
        /\ Done(t, "stats")
        /\ StatNumber(th[t].ret, "cache_size") = cap
        /\ Len(cache) = cap
        /\ TreeLen(tree) > cap

----------------------------------------------------------------------------
(* SpecLive: two callers on one key: get, set, delete, increment and        *)
(* truncate, the acquisition of the cache mutex a step of its own, under    *)
(* fair scheduling: a thread that can take a step of its call takes it, and *)
(* a thread that finds the mutex free again and again obtains it.  To keep  *)
(* the numbers few, a thread calls increment as its first call only; the    *)
(* other calls are made without end                                         *)

\* the step thread t takes next inside its call, the lock apart
Step(t) ==
    \/ th[t].holds /\ get_internal_cache(t)
    \/ th[t].holds /\ get_internal_put(t)
    \/ th[t].holds /\ set_internal_cache(t)
    \/ th[t].holds /\ delete_internal_cache(t)
    \/ th[t].holds /\ truncate_cache(t)
    \/ get_internal_tree(t)
    \/ set_internal_tree(t)
    \/ delete_internal_tree(t)
    \/ truncate_tree(t)

NextLive ==
    \/ \E t \in callers : get(t, RmwKey)
    \/ \E t \in callers : set(t, RmwKey, I64ToString(MaxNum - 1))
    \/ \E t \in callers : delete(t, RmwKey)
    \/ \E t \in callers : FirstCall(t) /\ increment(t, RmwKey, None)
    \/ CallTruncate
    \/ CacheLock
    \/ \E t \in callers : th[t].holds /\ get_internal_cache(t)
    \/ \E t \in callers : th[t].holds /\ get_internal_put(t)
    \/ \E t \in callers : th[t].holds /\ set_internal_cache(t)
    \/ \E t \in callers : th[t].holds /\ delete_internal_cache(t)
    \/ \E t \in callers : th[t].holds /\ truncate_cache(t)
    \/ GetTreeStep
    \/ SetTreeStep
    \/ DeleteTreeStep
    \/ TruncateTreeStep

SpecLive ==
    /\ InitConc
    /\ [][NextLive]_vars
    /\ \A t \in Threads : WF_vars(Step(t)) /\ SF_vars(cache_lock(t))

\* thread t is inside a call
Running(t) == th[t].pc # "idle"

----------------------------------------------------------------------------
(* SpecOverflow: one caller; the key holds nothing, a small number, or one  *)
(* of the two extreme values of i64; one increment or decrement by 1 or by  *)
(* an extreme amount, then reads.  Where overflow is checked the + or -     *)
(* panics, where it is not the result wraps: both outcomes are steps        *)

\* lines 315 and 332 built with overflow checks: the + or - that left i64
\* panics and unwinds the calling thread before set is called
add_overflow_panic(t) ==
    /\ th[t].pc = "set_cache"
    /\ th[t].fault = "overflow"
    /\ th' = [th EXCEPT ![t].pc = "unwound"]
    /\ UNCHANGED <<tree, disk, cache, cap, open, gen, callers, pre, last>>

NextOverflow ==
    \/ \E t \in callers, a \in {None, Some(I64Max), Some(-I64Max - 1)} :
          last[RmwKey].kind = "none" /\ Call(t, "increment", RmwKey, a, "get_cache")
    \/ \E t \in callers, a \in {None, Some(I64Max), Some(-I64Max - 1)} :
          last[RmwKey].kind = "none" /\ Call(t, "decrement", RmwKey, a, "get_cache")
    \/ CallGetRmw
    \/ \E t \in callers : add_overflow_panic(t)
    \/ GetCacheStep
    \/ GetTreeStep
    \/ GetPutStep
    \/ SetCacheStep
    \/ SetTreeStep

SpecOverflow ==
    /\ \E o \in {None, Some(<<"6">>), Some(I64ToString(I64Max)),
                  Some(I64ToString(-I64Max - 1))} :
          InitFrom({1}, [EmptyTree EXCEPT ![RmwKey] = o])
    /\ [][NextOverflow]_vars

\* the exact sum or difference of the call of thread t, from the number
\* stored when the call started
Exact(t) ==
    IF th[t].op = "increment"
    THEN CurrentNumber(PreText(t)) + AmountOr1(th[t].arg)
    ELSE CurrentNumber(PreText(t)) - AmountOr1(th[t].arg)

\* C25: an increment or decrement never unwinds its caller; one that has
\* returned with the exact result inside i64 returned that result and
\* stored its text; one whose exact result lies outside i64 returned an
\* error and left the stored value as it was.
C25_CheckedArithmetic ==
    \A t \in callers :
        /\ th[t].pc # "unwound"
        /\ (th[t].pc = "idle" /\ th[t].op \in {"increment", "decrement"}) =>
              IF InI64(Exact(t))
              THEN /\ th[t].ret = <<Exact(t)>>
                   /\ tree[RmwKey] = Some(I64ToString(Exact(t)))
              ELSE /\ IsErr(th[t].ret)
                   /\ tree[RmwKey] = pre.tree[RmwKey]

\* increment(k, None) on i64::MAX has returned i64::MIN and stored its text
C25_Wrapped ==
    \E t \in callers :
        /\ Done(t, "increment")
        /\ th[t].arg = None
        /\ pre.tree[RmwKey] = Some(I64ToString(I64Max))
        /\ th[t].ret = <<-I64Max - 1>>
        /\ tree[RmwKey] = Some(I64ToString(-I64Max - 1))

\* decrement(k, None) on i64::MIN has unwound its caller
C25_Unwound ==
    \E t \in callers :
        /\ th[t].pc = "unwound"
        /\ th[t].op = "decrement"
        /\ th[t].arg = None
        /\ tree[RmwKey] = Some(I64ToString(-I64Max - 1))

\* away from the limits the call is exact: increment(k, Some(i64::MAX)) on
\* i64::MIN has returned -1
C25_ExactInRange ==
    \E t \in callers :
        /\ Done(t, "increment")
        /\ pre.tree[RmwKey] = Some(I64ToString(-I64Max - 1))
        /\ th[t].arg = Some(I64Max)
        /\ th[t].ret = <<-1>>
        /\ tree[RmwKey] = Some(<<"-", "1">>)

============================================================================
